---- MODULE Spec2Model ----
(***************************************************************************)
(* Model of src/components/Recorder.js: the Recorder class (an             *)
(* H5P.EventDispatcher) that grabs the microphone once, forwards audio     *)
(* frames to a worker while recording and asks the worker for a WAV blob.  *)
(*                                                                         *)
(* The main thread is a JavaScript event loop: a public method, a platform *)
(* callback (getUserMedia settlement, onaudioprocess, worker.onmessage)    *)
(* and a promise reaction each run to completion.  Promise reactions are   *)
(* microtasks, kept in the FIFO queue `jobs`; a platform callback is a     *)
(* task and starts only when `jobs` is empty.  Public methods may be       *)
(* called by host code at any point between two steps (from a task, or     *)
(* from a listener or reaction that runs inside a microtask).  The worker  *)
(* runs concurrently with the main thread and shares no memory with it;    *)
(* the two message channels are FIFO and loss-free.                        *)
(*                                                                         *)
(* The environment provides navigator.mediaDevices.getUserMedia;           *)
(* window.AudioContext may be missing (audioContext = 0).                  *)
(***************************************************************************)
EXTENDS Naturals, Sequences, FiniteSets

\* ---------------------------------------------------------------- bounds
\* Number of public-method calls made by the host in one behaviour.
MaxCalls == 4
\* Number of onaudioprocess callbacks delivered in one behaviour.
MaxFrames == 2
\* The same two bounds for the behaviours checked for liveness.
LiveMaxCalls == 3
LiveMaxFrames == 1

\* ------------------------------------------------------ program constants
\* this.config.numChannels
numChannels == 1
\* RecorderState
RecorderState == [inactive |-> "inactive", recording |-> "recording"]

\* Names a platform error can carry ("" stands for an error with no name).
\* None of them names a property every JavaScript object inherits, so the
\* table lookup of _errorToCode finds a name only if the table lists it.
ErrorNames ==
  {"NotAllowedError", "PermissionDeniedError", "SomethingElseError", "NotAllowed", ""}

\* Sample rates the platform's audio context can report.
SampleRates == {44100, 48000}

\* Signals the dispatcher triggers in this program.
Signals == {"inactive", "recording", "blocked", "wav-delivered"}

VARIABLES
  audioContext,    \* this.audioContext: its sampleRate, 0 = undefined (not supported)
  state,           \* this.state
  userMedia,       \* this.userMedia: "undefined" or the memoized promise's state
  grantError,      \* the value this.userMedia was rejected with
  gum,             \* the promise returned by getUserMedia
  gumCalls,        \* number of getUserMedia calls issued
  gumError,        \* name of the error travelling down the getUserMedia chain
  stream,          \* self.stream: "none" or the granted "stream"
  wired,           \* sourceNode -> scriptProcessorNode -> destination connected
  jobs,            \* microtask queue of promise reactions
  startCalls,      \* one record per start() call
  exports,         \* one record per getWavURL() call (its promise)
  listeners,       \* once('wav-delivered') listeners, in registration order
  sent,            \* every message posted to the worker, in order
  workerPos,       \* number of messages of `sent` the worker has processed
  replies,         \* every message posted by the worker, in order
  mainPos,         \* number of replies delivered to worker.onmessage
  wConfig,         \* worker: config received by init
  wSamples,        \* worker: accumulated frames
  emitted,         \* number of times each signal was triggered
  nextFrame,       \* number of onaudioprocess callbacks so far
  recFrames,       \* history: frames whose callback ran while recording
  pc,              \* position of the main thread inside getWavURL
  calls,           \* number of public-method calls so far
  lastOp,          \* history: the step that produced the current state
  startSinceExport, \* history: start() was called after the latest getWavURL()
  stopped          \* history: stop() or reset() returned, and no start() call since

vars == <<audioContext, state, userMedia, grantError, gum, gumCalls, gumError,
          stream, wired, jobs, startCalls, exports, listeners, sent,
          workerPos, replies, mainPos, wConfig, wSamples, emitted, nextFrame,
          recFrames, pc, calls, lastOp, startSinceExport, stopped>>

\* ---------------------------------------------------------------- helpers
NoConfig == [sampleRate |-> 0, numChannels |-> 0]
NoError == [code |-> "none", error |-> "none"]
\* The event data of a trigger(sig) call that passes none.
NoData == "undefined"

\* A message to the worker: {command, config} or {command, buffer}.
Msg(command, config, buffer) ==
  [command |-> command, config |-> config, buffer |-> buffer]

\* this.worker.postMessage(m)
postMessage(q, m) == Append(q, m)

\* this.trigger(sig): one more emission of sig
trigger(em, sig) == [em EXCEPT ![sig] = @ + 1]

\* errorMessageToCodeMap
errorMessageToCodeMap ==
  [PermissionDeniedError |-> "permission-denied", NotAllowedError |-> "permission-denied"]

\* _errorToCode with the PermissionDeniedError row of the table missing.
_errorToCode_OneName(name) ==
  IF name = "NotAllowedError" THEN "permission-denied" ELSE "unknown"

\* _errorToCode(e), e given by its name
_errorToCode(name) ==
  IF name # "" /\ name \in DOMAIN errorMessageToCodeMap
  THEN errorMessageToCodeMap[name]
  ELSE "unknown"

\* URL.createObjectURL(blob)
createObjectURL(blob) == [url |-> "blob:", blob |-> blob]

\* A promise reaction job: the callback to run and the start() call it belongs to
\* (0 for the reactions inside grabMic).
Job(kind, call) == [kind |-> kind, call |-> call]

RECURSIVE ReactionJobs(_, _, _)
\* The reactions of the waiting start() calls, in registration order.
ReactionJobs(kind, i, n) ==
  IF i > n THEN <<>>
  ELSE (IF startCalls[i].st = "waiting" THEN <<Job(kind, i)>> ELSE <<>>)
       \o ReactionJobs(kind, i + 1, n)

\* The start() calls after their waiting reactions were queued as `st`.
Queued(calls_, st) ==
  [i \in 1..Len(calls_) |->
     IF calls_[i].st = "waiting" THEN [calls_[i] EXCEPT !.st = st] ELSE calls_[i]]

\* Number of messages of q with the given command.
Count(q, command) == Cardinality({i \in 1..Len(q) : q[i].command = command})

\* ------------------------------------------------------------------- Init
Init ==
  /\ audioContext \in {0} \cup SampleRates
  /\ state = RecorderState.inactive
  /\ userMedia = "undefined"
  /\ grantError = NoError
  /\ gum = "none"
  /\ gumCalls = 0
  /\ gumError = "none"
  /\ stream = "none"
  /\ wired = FALSE
  /\ jobs = <<>>
  /\ startCalls = <<>>
  /\ exports = <<>>
  /\ listeners = <<>>
  /\ sent = <<>>
  /\ workerPos = 0
  /\ replies = <<>>
  /\ mainPos = 0
  /\ wConfig = NoConfig
  /\ wSamples = <<>>
  /\ emitted = [s \in Signals |-> 0]
  /\ nextFrame = 0
  /\ recFrames = <<>>
  /\ pc = "idle"
  /\ calls = 0
  /\ lastOp = "init"
  /\ startSinceExport = FALSE
  /\ stopped = FALSE

\* A public method can be called: the main thread is between two steps.
CanCall == pc = "idle" /\ calls < MaxCalls
\* A task can start: the main thread is idle and no microtask is pending.
CanRunTask == pc = "idle" /\ jobs = <<>>

\* ---------------------------------------------------------------- grabMic
\* grabMic() without the `this.userMedia === undefined` test.
grabMic_NoMemo ==
  [userMedia |-> "pending", gum |-> "pending", gumCalls |-> gumCalls + 1]

\* grabMic() asking again after a rejected grant.
grabMic_RetryRejected ==
  IF userMedia \in {"undefined", "rejected"}
  THEN [userMedia |-> "pending", gum |-> "pending", gumCalls |-> gumCalls + 1]
  ELSE [userMedia |-> userMedia, gum |-> gum, gumCalls |-> gumCalls]

\* grabMic(): the memoized promise after the call, and whether getUserMedia
\* was called.
grabMic ==
  IF userMedia = "undefined"
  THEN [userMedia |-> "pending", gum |-> "pending", gumCalls |-> gumCalls + 1]
  ELSE [userMedia |-> userMedia, gum |-> gum, gumCalls |-> gumCalls]

\* A direct call of the public grabMic().
GrabMicCall ==
  /\ CanCall
  /\ LET g == grabMic IN
       /\ userMedia' = g.userMedia
       /\ gum' = g.gum
       /\ gumCalls' = g.gumCalls
  /\ calls' = calls + 1
  /\ lastOp' = "grabMic"
  /\ UNCHANGED <<audioContext, state, grantError, gumError, stream, wired, jobs,
                 startCalls, exports, listeners, sent, workerPos, replies, mainPos,
                 wConfig, wSamples, emitted, nextFrame, recFrames, pc,
                 startSinceExport, stopped>>

\* start(): this.grabMic().then(...).catch(...)
Start ==
  /\ CanCall
  /\ LET g == grabMic
         n == Len(startCalls) + 1
     IN
       /\ userMedia' = g.userMedia
       /\ gum' = g.gum
       /\ gumCalls' = g.gumCalls
       /\ startCalls' = Append(startCalls,
            [st |-> CASE g.userMedia = "pending" -> "waiting"
                      [] g.userMedia = "resolved" -> "thenQueued"
                      [] OTHER -> "passQueued",
             signal |-> "none",
             chain |-> "pending",
             data |-> "none"])
       /\ jobs' = CASE g.userMedia = "pending" -> jobs
                    [] g.userMedia = "resolved" -> Append(jobs, Job("startThen", n))
                    [] OTHER -> Append(jobs, Job("startPass", n))
  /\ calls' = calls + 1
  /\ lastOp' = "start"
  /\ startSinceExport' = TRUE
  /\ stopped' = FALSE
  /\ UNCHANGED <<audioContext, state, grantError, gumError, stream, wired,
                 exports, listeners, sent, workerPos, replies, mainPos,
                 wConfig, wSamples, emitted, nextFrame, recFrames, pc>>

\* ------------------------------------------------- getUserMedia settlement
\* The platform fulfils the getUserMedia promise with a stream.
GumFulfil ==
  /\ CanRunTask
  /\ gum = "pending"
  /\ gum' = "fulfilled"
  /\ jobs' = <<Job("gumThen", 0)>>
  /\ lastOp' = "gumFulfil"
  /\ UNCHANGED <<audioContext, state, userMedia, grantError, gumCalls, gumError,
                 stream, wired, startCalls, exports, listeners, sent, workerPos,
                 replies, mainPos, wConfig, wSamples, emitted, nextFrame, recFrames,
                 pc, calls, startSinceExport, stopped>>

\* The platform rejects the getUserMedia promise with a named error.
GumReject ==
  /\ CanRunTask
  /\ gum = "pending"
  /\ \E e \in ErrorNames : gumError' = e
  /\ gum' = "rejected"
  /\ jobs' = <<Job("gumPass", 0)>>
  /\ lastOp' = "gumReject"
  /\ UNCHANGED <<audioContext, state, userMedia, grantError, gumCalls, stream, wired,
                 startCalls, exports, listeners, sent, workerPos, replies, mainPos,
                 wConfig, wSamples, emitted, nextFrame, recFrames, pc, calls,
                 startSinceExport, stopped>>

\* ------------------------------------------------------- promise reactions
HeadIs(kind) == pc = "idle" /\ jobs # <<>> /\ Head(jobs).kind = kind

\* The message grabMic posts once the stream is wired.
InitMessage ==
  Msg("init", [sampleRate |-> audioContext, numChannels |-> numChannels], <<>>)

\* The .then callback resolving without posting init.
GrantPosts_NoInit == <<>>

\* What the getUserMedia .then callback posts to the worker before resolve().
GrantPosts == <<InitMessage>>

\* grabMic: getUserMedia(...).then((stream) => {...}).  Without an audio
\* context, this.audioContext.createMediaStreamSource throws a TypeError,
\* which rejects the promise .catch is attached to.
GumThen ==
  /\ HeadIs("gumThen")
  /\ stream' = "stream"
  /\ IF audioContext # 0
     THEN /\ wired' = TRUE
          /\ sent' = sent \o GrantPosts
          /\ userMedia' = "resolved"
          /\ jobs' = Tail(jobs) \o ReactionJobs("startThen", 1, Len(startCalls))
          /\ startCalls' = Queued(startCalls, "thenQueued")
          /\ UNCHANGED gumError
     ELSE /\ gumError' = "TypeError"
          /\ jobs' = Append(Tail(jobs), Job("gumCatch", 0))
          /\ UNCHANGED <<wired, sent, userMedia, startCalls>>
  /\ lastOp' = "gumThen"
  /\ UNCHANGED <<audioContext, state, grantError, gum, gumCalls, exports, listeners,
                 workerPos, replies, mainPos, wConfig, wSamples, emitted, nextFrame,
                 recFrames, pc, calls, startSinceExport, stopped>>

\* grabMic: .then has no rejection handler, so a rejection of getUserMedia
\* passes through to the promise .catch is attached to.
GumPass ==
  /\ HeadIs("gumPass")
  /\ jobs' = Append(Tail(jobs), Job("gumCatch", 0))
  /\ lastOp' = "gumPass"
  /\ UNCHANGED <<audioContext, state, userMedia, grantError, gum, gumCalls, gumError,
                 stream, wired, startCalls, exports, listeners, sent, workerPos,
                 replies, mainPos, wConfig, wSamples, emitted, nextFrame, recFrames,
                 pc, calls, startSinceExport, stopped>>

\* grabMic: .catch((e) => reject({code: this._errorToCode(e), error: e}))
GumCatch ==
  /\ HeadIs("gumCatch")
  /\ userMedia' = "rejected"
  /\ grantError' = [code |-> _errorToCode(gumError), error |-> gumError]
  /\ jobs' = Tail(jobs) \o ReactionJobs("startPass", 1, Len(startCalls))
  /\ startCalls' = Queued(startCalls, "passQueued")
  /\ lastOp' = "gumCatch"
  /\ UNCHANGED <<audioContext, state, gum, gumCalls, gumError, stream, wired, exports,
                 listeners, sent, workerPos, replies, mainPos, wConfig, wSamples,
                 emitted, nextFrame, recFrames, pc, calls, startSinceExport, stopped>>

\* _setState triggering only when the state changes.
StartThenEffect_QuietRepeat(c) ==
  /\ state' = RecorderState.recording
  /\ emitted' = IF state = RecorderState.recording THEN emitted
                ELSE trigger(emitted, RecorderState.recording)
  /\ startCalls' = [startCalls EXCEPT ![c] =
       [st |-> "done", signal |-> "recording", chain |-> "fulfilled",
        data |-> NoData]]

\* The effect of the .then callback of start(): this._setState(recording).
StartThenEffect(c) ==
  /\ state' = RecorderState.recording
  /\ emitted' = trigger(emitted, RecorderState.recording)
  /\ startCalls' = [startCalls EXCEPT ![c] =
       [st |-> "done", signal |-> "recording", chain |-> "fulfilled",
        data |-> NoData]]

\* start: .then(() => { this._setState(RecorderState.recording); })
StartThen ==
  /\ HeadIs("startThen")
  /\ StartThenEffect(Head(jobs).call)
  /\ jobs' = Tail(jobs)
  /\ lastOp' = "startThen"
  /\ UNCHANGED <<audioContext, userMedia, grantError, gum, gumCalls, gumError, stream,
                 wired, exports, listeners, sent, workerPos, replies, mainPos, wConfig,
                 wSamples, nextFrame, recFrames, pc, calls, startSinceExport, stopped>>

\* start: .then has no rejection handler, so the rejected grant passes through
\* to the promise .catch is attached to.
StartPass ==
  /\ HeadIs("startPass")
  /\ jobs' = Append(Tail(jobs), Job("startCatch", Head(jobs).call))
  /\ startCalls' = [startCalls EXCEPT ![Head(jobs).call].st = "catchQueued"]
  /\ lastOp' = "startPass"
  /\ UNCHANGED <<audioContext, state, userMedia, grantError, gum, gumCalls, gumError,
                 stream, wired, exports, listeners, sent, workerPos, replies, mainPos,
                 wConfig, wSamples, emitted, nextFrame, recFrames, pc, calls,
                 startSinceExport, stopped>>

\* The .catch callback of start() going on to record.
StartCatchEffect_Records(c) ==
  /\ state' = RecorderState.recording
  /\ emitted' = trigger(emitted, "blocked")
  /\ startCalls' = [startCalls EXCEPT ![c] =
       [st |-> "done", signal |-> "blocked", chain |-> "fulfilled",
        data |-> NoData]]

\* start() without a .catch: the rejection stays on the chain.
StartCatchEffect_Rethrows(c) ==
  /\ state' = state
  /\ emitted' = emitted
  /\ startCalls' = [startCalls EXCEPT ![c] =
       [st |-> "done", signal |-> "none", chain |-> "rejected",
        data |-> "none"]]

\* The effect of the .catch callback of start(): this.trigger('blocked').
StartCatchEffect(c) ==
  /\ state' = state
  /\ emitted' = trigger(emitted, "blocked")
  /\ startCalls' = [startCalls EXCEPT ![c] =
       [st |-> "done", signal |-> "blocked", chain |-> "fulfilled",
        data |-> NoData]]

\* start: .catch((e) => { this.trigger('blocked'); })
StartCatch ==
  /\ HeadIs("startCatch")
  /\ StartCatchEffect(Head(jobs).call)
  /\ jobs' = Tail(jobs)
  /\ lastOp' = "startCatch"
  /\ UNCHANGED <<audioContext, userMedia, grantError, gum, gumCalls, gumError, stream,
                 wired, exports, listeners, sent, workerPos, replies, mainPos, wConfig,
                 wSamples, nextFrame, recFrames, pc, calls, startSinceExport, stopped>>

\* ------------------------------------------------------------ stop / reset
\* stop() written as reset().
StopPosts_Clear == <<Msg("clear", NoConfig, <<>>)>>

\* What stop() posts to the worker: nothing.
StopPosts == <<>>

\* stop(): this._setState(RecorderState.inactive)
Stop ==
  /\ CanCall
  /\ state' = RecorderState.inactive
  /\ emitted' = trigger(emitted, RecorderState.inactive)
  /\ sent' = sent \o StopPosts
  /\ calls' = calls + 1
  /\ lastOp' = "stop"
  /\ stopped' = TRUE
  /\ UNCHANGED <<audioContext, userMedia, grantError, gum, gumCalls, gumError, stream,
                 wired, jobs, startCalls, exports, listeners, workerPos, replies,
                 mainPos, wConfig, wSamples, nextFrame, recFrames, pc,
                 startSinceExport>>

\* reset() written as stop().
ResetPosts_None == <<>>

\* What reset() posts to the worker.
ResetPosts == <<Msg("clear", NoConfig, <<>>)>>

\* reset(): this._setState(RecorderState.inactive); postMessage({command: 'clear'})
Reset ==
  /\ CanCall
  /\ state' = RecorderState.inactive
  /\ emitted' = trigger(emitted, RecorderState.inactive)
  /\ sent' = sent \o ResetPosts
  /\ calls' = calls + 1
  /\ lastOp' = "reset"
  /\ stopped' = TRUE
  /\ UNCHANGED <<audioContext, userMedia, grantError, gum, gumCalls, gumError, stream,
                 wired, jobs, startCalls, exports, listeners, workerPos, replies,
                 mainPos, wConfig, wSamples, nextFrame, recFrames, pc,
                 startSinceExport>>

\* -------------------------------------------------------------- getWavURL
\* getWavURL() posting the request before it registers the listener.
getWavURLSteps_PostFirst == <<"postMessage", "once">>

\* The two statements of getWavURL() after this.stop(), in program order:
\* new Promise(... this.once('wav-delivered', ...)), then postMessage.
getWavURLSteps == <<"once", "postMessage">>

\* One statement of getWavURL().
GetWavURLStep(step) ==
  IF step = "once"
  THEN /\ exports' = Append(exports, [status |-> "pending", value |-> <<>>])
       /\ listeners' = Append(listeners, Len(exports) + 1)
       /\ UNCHANGED sent
  ELSE /\ sent' = postMessage(sent, Msg("export-wav", NoConfig, <<>>))
       /\ UNCHANGED <<exports, listeners>>

\* getWavURL(): this.stop() and the first statement after it.
GetWavURL ==
  /\ CanCall
  /\ state' = RecorderState.inactive
  /\ emitted' = trigger(emitted, RecorderState.inactive)
  /\ GetWavURLStep(getWavURLSteps[1])
  /\ pc' = "getWavURL"
  /\ calls' = calls + 1
  /\ lastOp' = "getWavURL"
  /\ startSinceExport' = FALSE
  /\ stopped' = TRUE
  /\ UNCHANGED <<audioContext, userMedia, grantError, gum, gumCalls, gumError, stream,
                 wired, jobs, startCalls, workerPos, replies, mainPos, wConfig,
                 wSamples, nextFrame, recFrames>>

\* getWavURL(): the second statement, and the return.
GetWavURLReturn ==
  /\ pc = "getWavURL"
  /\ GetWavURLStep(getWavURLSteps[2])
  /\ pc' = "idle"
  /\ lastOp' = "getWavURLReturn"
  /\ UNCHANGED <<audioContext, state, userMedia, grantError, gum, gumCalls, gumError,
                 stream, wired, jobs, startCalls, workerPos, replies, mainPos, wConfig,
                 wSamples, emitted, nextFrame, recFrames, calls, startSinceExport, stopped>>

\* ---------------------------------------------------------- onaudioprocess
\* onaudioprocess without the state test.
Forwards_Always == TRUE

\* if (self.state === RecorderState.recording)
Forwards == state = RecorderState.recording

\* scriptProcessorNode.onaudioprocess: one callback per buffer of samples,
\* delivered once the node is connected.  The frame is named by its number.
AudioProcess ==
  /\ CanRunTask
  /\ wired
  /\ nextFrame < MaxFrames
  /\ nextFrame' = nextFrame + 1
  /\ sent' = IF Forwards
             THEN postMessage(sent, Msg("record", NoConfig, <<nextFrame + 1>>))
             ELSE sent
  /\ recFrames' = IF state = "recording" THEN Append(recFrames, nextFrame + 1)
                  ELSE recFrames
  /\ lastOp' = "audioProcess"
  /\ UNCHANGED <<audioContext, state, userMedia, grantError, gum, gumCalls, gumError,
                 stream, wired, jobs, startCalls, exports, listeners, workerPos,
                 replies, mainPos, wConfig, wSamples, emitted, pc, calls,
                 startSinceExport, stopped>>

\* ------------------------------------------------------------------ worker
\* The worker takes the next message of its FIFO channel and handles it:
\* init sets the configuration, record appends the frame, clear discards the
\* accumulated frames, export-wav replies wav-delivered with the encoded blob.
WorkerStep ==
  /\ workerPos < Len(sent)
  /\ workerPos' = workerPos + 1
  /\ LET m == sent[workerPos + 1] IN
       /\ wConfig' = IF m.command = "init" THEN m.config ELSE wConfig
       /\ wSamples' = CASE m.command = "record" -> wSamples \o m.buffer
                        [] m.command = "clear" -> <<>>
                        [] OTHER -> wSamples
       /\ replies' = IF m.command = "export-wav"
                     THEN Append(replies, [command |-> "wav-delivered",
                                           blob |-> [samples |-> wSamples,
                                                     config |-> wConfig]])
                     ELSE replies
  /\ lastOp' = "worker"
  /\ UNCHANGED <<audioContext, state, userMedia, grantError, gum, gumCalls, gumError,
                 stream, wired, jobs, startCalls, exports, listeners, sent, mainPos,
                 emitted, nextFrame, recFrames, pc, calls, startSinceExport, stopped>>

\* --------------------------------------------------------- worker.onmessage
\* The listener calling reject instead of resolve.
WavListener_Rejects(export, data) ==
  IF export.status = "pending"
  THEN [status |-> "rejected", value |-> <<createObjectURL(data)>>]
  ELSE export

\* The listener not resolving the promise.
WavListener_Ignores(export, data) == export

\* The once('wav-delivered') listener of getWavURL():
\* resolve(URL.createObjectURL(e.data))
WavListener(export, data) ==
  IF export.status = "pending"
  THEN [status |-> "resolved", value |-> <<createObjectURL(data)>>]
  ELSE export

\* Listeners registered with on() instead of once().
AfterFire_Keeps(ls) == ls

\* The once-listeners left after the dispatcher called them: none.
AfterFire(ls) == <<>>

\* worker.onmessage: self.trigger(e.data.command, e.data.blob).  The
\* dispatcher calls every listener registered for the signal; a once-listener
\* removes itself when called.
OnMessage ==
  /\ CanRunTask
  /\ mainPos < Len(replies)
  /\ mainPos' = mainPos + 1
  /\ LET m == replies[mainPos + 1]
         fired == {listeners[i] : i \in 1..Len(listeners)}
     IN
       /\ emitted' = trigger(emitted, m.command)
       /\ IF m.command = "wav-delivered"
          THEN /\ exports' = [i \in 1..Len(exports) |->
                                IF i \in fired THEN WavListener(exports[i], m.blob)
                                ELSE exports[i]]
               /\ listeners' = AfterFire(listeners)
          ELSE UNCHANGED <<exports, listeners>>
  /\ lastOp' = "onmessage"
  /\ UNCHANGED <<audioContext, state, userMedia, grantError, gum, gumCalls, gumError,
                 stream, wired, jobs, startCalls, sent, workerPos, replies, wConfig,
                 wSamples, nextFrame, recFrames, pc, calls, startSinceExport, stopped>>

\* ------------------------------------------------------------ specification
Next ==
  \/ Start
  \/ GrabMicCall
  \/ Stop
  \/ Reset
  \/ GetWavURL
  \/ GetWavURLReturn
  \/ GumFulfil
  \/ GumReject
  \/ GumThen
  \/ GumPass
  \/ GumCatch
  \/ StartThen
  \/ StartPass
  \/ StartCatch
  \/ AudioProcess
  \/ WorkerStep
  \/ OnMessage

Spec == Init /\ [][Next]_vars

\* The event loop runs a started method to its end, runs every queued promise
\* reaction and delivers every posted reply; the worker handles every message
\* it was sent.  Nothing obliges the platform to settle getUserMedia or the
\* host to call a method.
Fairness ==
  /\ WF_vars(GetWavURLReturn)
  /\ WF_vars(GumThen)
  /\ WF_vars(GumPass)
  /\ WF_vars(GumCatch)
  /\ WF_vars(StartThen)
  /\ WF_vars(StartPass)
  /\ WF_vars(StartCatch)
  /\ WF_vars(WorkerStep)
  /\ WF_vars(OnMessage)

\* The steps of the behaviours checked for liveness.
LiveNext ==
  \/ Start /\ calls' <= LiveMaxCalls
  \/ GrabMicCall /\ calls' <= LiveMaxCalls
  \/ Stop /\ calls' <= LiveMaxCalls
  \/ Reset /\ calls' <= LiveMaxCalls
  \/ GetWavURL /\ calls' <= LiveMaxCalls
  \/ GetWavURLReturn
  \/ GumFulfil
  \/ GumReject
  \/ GumThen
  \/ GumPass
  \/ GumCatch
  \/ StartThen
  \/ StartPass
  \/ StartCatch
  \/ AudioProcess /\ nextFrame' <= LiveMaxFrames
  \/ WorkerStep
  \/ OnMessage

LiveSpec == Init /\ [][LiveNext]_vars /\ Fairness

\* ------------------------------------------------------------------ claims
\* The frames carried by the record messages of q, in order.
RecordFrames(q) ==
  LET r == SelectSeq(q, LAMBDA m : m.command = "record")
  IN [i \in 1..Len(r) |-> r[i].buffer[1]]

\* C1: once start() or grabMic() has been called, getUserMedia has been called
\* exactly once, and every start() call sees the one memoized grant: it waits
\* while the grant is pending, goes on to record only when the grant resolved
\* and is blocked only when the grant rejected.
C1_GrantOnce ==
  /\ gumCalls <= 1
  /\ (Len(startCalls) > 0 \/ lastOp = "grabMic" \/ userMedia # "undefined")
       => gumCalls = 1
  /\ \A i \in 1..Len(startCalls) :
       LET c == startCalls[i] IN
         /\ c.st = "waiting" => userMedia = "pending"
         /\ (c.st = "thenQueued" \/ c.signal = "recording") => userMedia = "resolved"
         /\ (c.st \in {"passQueued", "catchQueued"} \/ c.signal = "blocked")
              => userMedia = "rejected"

C1_Witness ==
  /\ gumCalls = 1
  /\ lastOp = "grabMic"
  /\ Len(startCalls) >= 2
  /\ \A i \in 1..Len(startCalls) : startCalls[i].st = "done"

\* C2: the record messages posted to the worker carry exactly the frames
\* whose onaudioprocess callback ran while state = recording, in capture
\* order; a callback that ran while inactive posted nothing.
C2_ForwardedFrames == RecordFrames(sent) = recFrames

C2_Witness ==
  /\ lastOp = "audioProcess"
  /\ recFrames = <<2>>
  /\ nextFrame = 2

\* C3: the state is always inactive or recording and starts inactive;
\* inactive -> recording happens only in the .then callback of a start()
\* whose grant resolved, and recording -> inactive only in stop(), reset() or
\* getWavURL().
C3_StateMachine ==
  [][/\ state \in {RecorderState.inactive, RecorderState.recording}
     /\ state' \in {RecorderState.inactive, RecorderState.recording}
     /\ lastOp = "init" => state = RecorderState.inactive
     /\ (state = RecorderState.inactive /\ state' = RecorderState.recording)
          => (lastOp' = "startThen" /\ userMedia = "resolved")
     /\ (state = RecorderState.recording /\ state' = RecorderState.inactive)
          => lastOp' \in {"stop", "reset", "getWavURL"}]_vars

C3_Witness ==
  /\ state = RecorderState.inactive
  /\ lastOp = "stop"
  /\ emitted.recording >= 1
  /\ emitted.inactive = 1

\* C4: a start() whose grant failed leaves the state as it was, triggers
\* blocked once and recording never, and its promise chain ends fulfilled:
\* nothing is thrown to or rejected towards the caller.
C4_FailedStartBlocked ==
  [][/\ lastOp' \in {"start", "gumReject", "gumPass", "gumCatch", "startPass",
                     "startCatch"} => state' = state
     /\ lastOp' = "startCatch" =>
          /\ userMedia = "rejected"
          /\ emitted' = [emitted EXCEPT !["blocked"] = @ + 1]
     /\ \A i \in 1..Len(startCalls') :
          LET c == startCalls'[i] IN
            /\ c.chain # "rejected"
            /\ (userMedia' = "rejected" /\ c.st = "done")
                 => (c.signal = "blocked" /\ c.chain = "fulfilled")]_vars

C4_Witness ==
  /\ lastOp = "startCatch"
  /\ userMedia = "rejected"
  /\ \E i \in 1..Len(startCalls) : startCalls[i].signal = "blocked"

\* C5: while the promise of the latest getWavURL() is pending and start() has
\* not been called since, the state is inactive.
C5_InactiveWhileExportPending ==
  (/\ exports # <<>>
   /\ exports[Len(exports)].status = "pending"
   /\ ~startSinceExport)
    => state = RecorderState.inactive

\* C6: every record message posted to the worker is preceded on the channel
\* by an init message carrying the context's sample rate and the channel count.
C6_InitBeforeRecord ==
  \A i \in 1..Len(sent) :
    sent[i].command = "record" =>
      \E j \in 1..(i - 1) :
        /\ sent[j].command = "init"
        /\ sent[j].config = [sampleRate |-> audioContext, numChannels |-> numChannels]

C6_Witness == \E i \in 1..Len(sent) : sent[i].command = "record"

\* C7: stop() while inactive leaves the state inactive, triggers inactive
\* once and changes nothing else: no message, the grant and the exports as
\* they were.
C7_StopIdempotent ==
  [][(lastOp' = "stop" /\ state = RecorderState.inactive) =>
       /\ state' = RecorderState.inactive
       /\ emitted' = [emitted EXCEPT !["inactive"] = @ + 1]
       /\ UNCHANGED <<sent, userMedia, grantError, gum, gumCalls, jobs, startCalls,
                      exports, listeners, wired, stream, pc>>]_vars

C7_Witness ==
  /\ lastOp = "stop"
  /\ emitted.recording = 0
  /\ emitted.inactive >= 2
  /\ exports # <<>>

\* C8: a clear message is posted by reset() and by nothing else; reset() makes
\* the state inactive and posts exactly one clear; the worker's accumulated
\* frames shrink only when it handles a clear, and otherwise only grow.
C8_ClearOnlyByReset ==
  [][/\ Count(sent', "clear") > Count(sent, "clear") => lastOp' = "reset"
     /\ lastOp' = "reset" =>
          /\ state' = RecorderState.inactive
          /\ sent' = Append(sent, Msg("clear", NoConfig, <<>>))
     /\ IF lastOp' = "worker" /\ sent[workerPos + 1].command = "clear"
        THEN wSamples' = <<>>
        ELSE /\ Len(wSamples') >= Len(wSamples)
             /\ SubSeq(wSamples', 1, Len(wSamples)) = wSamples]_vars

C8_Witness ==
  /\ lastOp = "worker"
  /\ sent[workerPos].command = "clear"
  /\ wSamples = <<>>
  /\ recFrames # <<>>
  /\ emitted.recording >= 1

\* C9: an export-wav request is on the channel only if the listener of its
\* getWavURL() call was registered before: requests never outnumber the
\* registered listeners, and replies never outnumber the requests.
C9_ListenerBeforeRequest ==
  /\ Count(sent, "export-wav") <= Len(exports)
  /\ Len(replies) <= Count(sent, "export-wav")
  /\ pc = "getWavURL" =>
       /\ Count(sent, "export-wav") = Len(exports) - 1
       /\ listeners # <<>>
       /\ listeners[Len(listeners)] = Len(exports)

C9_Witness ==
  /\ pc = "getWavURL"
  /\ Len(exports) = 2
  /\ Len(replies) = 1

\* C10: the promise of getWavURL() is never rejected; it stops being pending
\* only by being resolved, and only when worker.onmessage delivers a
\* wav-delivered reply.
C10_ExportNeverRejects ==
  [][\A i \in 1..Len(exports') :
       /\ exports'[i].status \in {"pending", "resolved"}
       /\ i > Len(exports) => exports'[i].status = "pending"
       /\ (i <= Len(exports) /\ exports'[i] # exports[i]) =>
            /\ exports[i].status = "pending"
            /\ exports'[i].status = "resolved"
            /\ lastOp' = "onmessage"
            /\ replies[mainPos + 1].command = "wav-delivered"]_vars

C10_Witness ==
  /\ lastOp = "reset"
  /\ Len(exports) = 2
  /\ exports[1].status = "resolved"
  /\ exports[2].status = "pending"

\* The positions in `sent` of the export-wav requests, in order: the k-th is
\* the request of the k-th getWavURL() call.
ExportPositions ==
  SelectSeq([i \in 1..Len(sent) |-> i], LAMBDA i : sent[i].command = "export-wav")

\* The samples in the blob a resolved getWavURL() promise refers to.
ResolvedSamples(export) == export.value[1].blob.samples

\* C11: a getWavURL() whose request follows a reset()'s clear directly on the
\* channel (nothing was recorded in between) is resolved with a blob that
\* holds no samples.
C11_ResetThenExportIsEmpty ==
  \A k \in 1..Len(ExportPositions) :
    (/\ k <= Len(exports)
     /\ exports[k].status = "resolved"
     /\ ExportPositions[k] > 1
     /\ sent[ExportPositions[k] - 1].command = "clear")
      => ResolvedSamples(exports[k]) = <<>>

\* C12: two consecutive getWavURL() calls whose requests are adjacent on the
\* channel (no clear and no record between them) are resolved with blobs
\* holding the same samples.
C12_BackToBackSameSamples ==
  \A k \in 1..Len(ExportPositions) :
    (/\ k + 1 <= Len(ExportPositions)
     /\ k + 1 <= Len(exports)
     /\ ExportPositions[k + 1] = ExportPositions[k] + 1
     /\ exports[k].status = "resolved"
     /\ exports[k + 1].status = "resolved")
      => ResolvedSamples(exports[k]) = ResolvedSamples(exports[k + 1])

\* C18: the k-th getWavURL() call is resolved with the blob of the k-th
\* reply, the one the worker produced for that call's own request.
C18_OwnBlob ==
  \A k \in 1..Len(exports) :
    exports[k].status = "resolved" =>
      /\ k <= Len(replies)
      /\ exports[k].value = <<createObjectURL(replies[k].blob)>>

\* The code the classifier is to give a platform error of this name.
ExpectedCode(name) ==
  IF name = "NotAllowedError" \/ name = "PermissionDeniedError"
  THEN "permission-denied"
  ELSE "unknown"

\* C13: the classifier gives permission-denied exactly for the names
\* NotAllowedError and PermissionDeniedError and unknown for every other name
\* and for no name; a rejected grant carries that code and the error itself.
C13_ErrorClassifier ==
  /\ \A n \in ErrorNames \cup {"TypeError"} : _errorToCode(n) = ExpectedCode(n)
  /\ userMedia = "rejected" =>
       grantError = [code |-> ExpectedCode(gumError), error |-> gumError]

C13_Witness ==
  /\ userMedia = "rejected"
  /\ grantError = [code |-> "permission-denied", error |-> "PermissionDeniedError"]

\* C14: after stop() or reset() has returned, and until start() is called
\* again, the state is inactive.
C14_StoppedStaysInactive == stopped => state = RecorderState.inactive

\* C15: the blocked signal of a failed start() carries the classified code
\* of the rejected grant.
C15_BlockedCarriesCode ==
  \A i \in 1..Len(startCalls) :
    startCalls[i].signal = "blocked" => startCalls[i].data = grantError.code

\* C16: stop() and reset() each trigger inactive exactly once; the reaction
\* of a start() triggers exactly one signal, recording after a resolved grant
\* and blocked after a rejected one; nothing else triggers these signals but
\* the stop() inside getWavURL(); a recording or inactive signal equals the
\* state at its emission; and once the grant has settled and the reactions
\* ran, every start() call has triggered its one signal.
C16_SignalsMatchState ==
  [][/\ lastOp' \in {"stop", "reset", "getWavURL"} =>
          emitted' = [emitted EXCEPT !["inactive"] = @ + 1]
     /\ lastOp' = "startThen" =>
          /\ userMedia = "resolved"
          /\ emitted' = [emitted EXCEPT !["recording"] = @ + 1]
     /\ lastOp' = "startCatch" =>
          /\ userMedia = "rejected"
          /\ emitted' = [emitted EXCEPT !["blocked"] = @ + 1]
     /\ lastOp' \notin {"stop", "reset", "getWavURL", "startThen", "startCatch",
                        "onmessage"} => emitted' = emitted
     /\ emitted'["inactive"] > emitted["inactive"] => state' = RecorderState.inactive
     /\ emitted'["recording"] > emitted["recording"] => state' = RecorderState.recording
     /\ (jobs' = <<>> /\ userMedia' \in {"resolved", "rejected"}) =>
          \A i \in 1..Len(startCalls') :
            /\ startCalls'[i].st = "done"
            /\ startCalls'[i].signal =
                 (IF userMedia' = "resolved" THEN "recording" ELSE "blocked")]_vars

C16_Witness ==
  /\ lastOp = "startThen"
  /\ emitted["recording"] = 2
  /\ emitted["inactive"] = 0

\* C17: worker.onmessage triggers the reply's command once, with the reply's
\* blob as data: the state is left alone, every registered once-listener of
\* wav-delivered resolves its promise with a reference to that blob and is
\* removed, and nothing but getWavURL() registers such a listener.
C17_ReplyReemitted ==
  [][/\ lastOp' = "onmessage" =>
          LET m == replies[mainPos + 1] IN
            /\ emitted' = [emitted EXCEPT ![m.command] = @ + 1]
            /\ state' = state
            /\ listeners' = <<>>
            /\ \A i \in 1..Len(listeners) :
                 /\ exports[listeners[i]].status = "pending"
                 /\ exports'[listeners[i]] =
                      [status |-> "resolved", value |-> <<createObjectURL(m.blob)>>]
     /\ listeners' # listeners =>
          \/ lastOp' = "onmessage"
          \/ /\ lastOp' = "getWavURL"
             /\ listeners' = Append(listeners, Len(exports'))]_vars

C17_Witness ==
  /\ lastOp = "onmessage"
  /\ mainPos = 2
  /\ emitted["wav-delivered"] = 2
  /\ Len(exports) >= 2

\* C19: once the grant is rejected it stays rejected: no further
\* getUserMedia call is made, no init and no record message is ever posted,
\* the state is inactive, and every start() call ends in blocked.
C19_FailedGrantPermanent ==
  [][/\ userMedia = "rejected" =>
          /\ userMedia' = "rejected"
          /\ gumCalls' = gumCalls
          /\ grantError' = grantError
     /\ userMedia' = "rejected" =>
          /\ gumCalls' = 1
          /\ state' = RecorderState.inactive
          /\ Count(sent', "init") = 0
          /\ Count(sent', "record") = 0
          /\ emitted'["recording"] = 0
          /\ \A i \in 1..Len(startCalls') :
               /\ startCalls'[i].st \in {"passQueued", "catchQueued", "done"}
               /\ startCalls'[i].signal \in {"none", "blocked"}
               /\ startCalls'[i].st = "done" => startCalls'[i].signal = "blocked"]_vars

C19_Witness ==
  /\ userMedia = "rejected"
  /\ lastOp = "startCatch"
  /\ emitted["blocked"] = 2
  /\ emitted["inactive"] >= 1

\* Every message was handled by the worker and every reply was delivered.
AllDelivered == pc = "idle" /\ workerPos = Len(sent) /\ mainPos = Len(replies)

\* C20: with a worker that answers and an event loop that runs, whenever a
\* getWavURL() promise is pending, a state follows in which every promise is
\* resolved (a resolved promise stays resolved, so every call is eventually
\* resolved); and whenever every reply has been delivered, no promise is
\* pending and no once-listener is registered.
C20_ExportLiveness ==
  /\ [](AllDelivered =>
         /\ listeners = <<>>
         /\ \A i \in 1..Len(exports) : exports[i].status = "resolved")
  /\ (\E i \in 1..Len(exports) : exports[i].status = "pending")
       ~> (\A i \in 1..Len(exports) : exports[i].status = "resolved")

C20_Witness ==
  /\ AllDelivered
  /\ Len(exports) = 2
  /\ mainPos = 2
  /\ recFrames # <<>>

====
